---- MODULE Spec2Model ----
(***************************************************************************)
(* A model of the resource-link cache of roli_proxy: the LinkMap registry  *)
(* and its identifier allocator (links.rs), the keepalive engine           *)
(* (refresh.rs), the link handler (main.rs) and the two memoization        *)
(* primitives Promise and LazyPromise (promise.rs).                        *)
(*                                                                         *)
(* Spec            : the registry and its lock: setup_links calls, expiry  *)
(*                   tasks and lookups in any interleaving; durations are  *)
(*                   left out, a timer may fire at any moment.             *)
(* SpecTimed       : one batch with its clock, its timers and its pulses.  *)
(* FairSpecTimed   : SpecTimed under the fairness of the tokio scheduler.  *)
(* SpecPromise     : a Promise with its spawned task, a LazyPromise, and   *)
(*                   the readers that call get on either.                  *)
(* FairSpecPromise : SpecPromise under the fairness of the scheduler.      *)
(***************************************************************************)
EXTENDS Integers, Sequences, FiniteSets, TLC

(* ------------------------------ bounds -------------------------------- *)

\* number of setup_links calls (batches) in a behaviour
MaxBatches == 2

\* largest number of posts of one batch
MaxPosts == 2

\* steps of the clock in the shorter of the two durations
TicksPerHeader == 2

\* number of tasks that call Promise::get or LazyPromise::get
MaxReaders == 2

\* largest id a registry handed to get_free_ids by itself has as a key
MaxKey == 5

\* the longest query the search handler is given, in characters
MaxQueryLen == 4

\* the most posts of a batch where the waiting for the lock is followed
MaxLockPosts == 1

(* ------------------------- program constants -------------------------- *)

\* links.rs:170  refresh_handler.attach_with_local(1200, ...)
IMAGE_TTL == 1200

\* links.rs:183  refresh_handler.attach(600, ...)
HEADER_TTL == 600

\* the length of one step of the clock
TickLen == HEADER_TTL \div TicksPerHeader

(* ------------------------------- sets --------------------------------- *)

Batches == 1..MaxBatches

\* slot 0 is the batch's header attachment (attach), slot i > 0 the
\* attachment of the i-th post (attach_with_local)
Slots == 0..MaxPosts

\* api::Post values (the post id stands for the post)
PostPool == {42}

\* api::Posts: the lists a search can return
PostLists == UNION {[1..n -> PostPool] : n \in 0..MaxPosts}

\* no behaviour holds more ids than this at once
MaxIds == MaxBatches * (2 * MaxPosts + 3)

IdPool == 0..(MaxIds - 1)

Min(a, b) == IF a < b THEN a ELSE b

(* ------------------------------ links.rs ------------------------------ *)

\* enum Link: the variant, and the batch and slot whose resource it holds
Link(kind, b, s) == [kind |-> kind, batch |-> b, slot |-> s]

NoLink == [kind |-> "None", batch |-> 0, slot |-> 0]

NoIds == [post_ids |-> <<>>, header_ids |-> [search_map |-> 0, preview |-> 0, refresh |-> 0]]

\* struct PostIds / PostIds::new
PostIds(pair) == [post |-> pair[1], refresh |-> pair[2]]

\* (0_usize..).filter(|k| !self.inner.contains_key(k)), first n elements
RECURSIVE ScanFree(_, _, _)
ScanFree(keys, k, n) ==
    IF n = 0 THEN <<>>
    ELSE IF k \in keys THEN ScanFree(keys, k + 1, n)
    ELSE <<k>> \o ScanFree(keys, k + 1, n - 1)

\* a scan that does not skip the keys of the registry
FreeIdsUnfiltered(keys, n) == [i \in 1..n |-> i - 1]

\* a scan that skips only the keys below its first free id
FreeIdsStale(keys, n) ==
    LET first == ScanFree(keys, 0, 1)[1]
    IN  [i \in 1..n |-> first + i - 1]

FreeIds(keys, n) == ScanFree(keys, 0, n)

\* the header takes the first three free ids and the posts the ones after
get_free_ids_header_first(map, ps) ==
    LET n   == Len(ps)
        ids == FreeIds(DOMAIN map, 2 * n + 3)
    IN  [post_ids   |-> [i \in 1..n |-> PostIds(<<ids[2 * i + 2], ids[2 * i + 3]>>)],
         header_ids |-> [search_map |-> ids[1],
                         preview    |-> ids[2],
                         refresh    |-> ids[3]]]

\* LinkMap::get_free_ids
get_free_ids(map, ps) ==
    LET n   == Len(ps)
        ids == FreeIds(DOMAIN map, 2 * n + 3)
    IN  [post_ids   |-> [i \in 1..n |-> PostIds(<<ids[2 * i - 1], ids[2 * i]>>)],
         header_ids |-> [search_map |-> ids[2 * n + 1],
                         preview    |-> ids[2 * n + 2],
                         refresh    |-> ids[2 * n + 3]]]

\* HashMap::insert / HashMap::remove
MapInsert(map, k, v) == [i \in DOMAIN map \cup {k} |-> IF i = k THEN v ELSE map[i]]

MapRemove(map, k) == [i \in DOMAIN map \ {k} |-> map[i]]

\* LinkMap::insert_image
insert_image(map, ids, b, s) ==
    MapInsert(MapInsert(map, ids.post, Link("Image", b, s)),
              ids.refresh, Link("RefreshImage", b, s))

\* a removal that forgets the refresh entry of the image
remove_image_post_only(map, ids) == MapRemove(map, ids.post)

\* LinkMap::remove_image
remove_image(map, ids) == MapRemove(MapRemove(map, ids.post), ids.refresh)

\* LinkMap::insert_preview
insert_preview(map, ids, b) == MapInsert(map, ids.preview, Link("Previews", b, 0))

\* a removal that leaves the preview where it is
remove_preview_nothing(map, ids) == map

\* LinkMap::remove_preview
remove_preview(map, ids) == MapRemove(map, ids.preview)

\* LinkMap::insert_query
insert_query(map, ids, b) ==
    MapInsert(MapInsert(map, ids.search_map, Link("SearchMap", b, 0)),
              ids.refresh, Link("RefreshSearch", b, 0))

\* a removal that leaves the group's Refresher where it is
remove_query_search_map_only(map, ids) == MapRemove(map, ids.search_map)

\* LinkMap::remove_query
remove_query(map, ids) == MapRemove(MapRemove(map, ids.search_map), ids.refresh)

\* LinkMap::get
get(map, id) == IF id \in DOMAIN map THEN map[id] ELSE NoLink

(* --------------------- links.rs: SeachMapBuilder ---------------------- *)

\* api::Post: the fields the SearchMap names
Post(id, file, sample, preview, score, rating, ext) ==
    [id |-> id,
     sample  |-> [width |-> sample[1], height |-> sample[2]],
     preview |-> [width |-> preview[1], height |-> preview[2]],
     score   |-> [up |-> score[1], down |-> score[2]],
     rating  |-> rating,
     file    |-> [width |-> file[1], height |-> file[2], ext |-> ext]]

\* posts an upstream answer can hold: one whose sample is a scaled copy of
\* its file, one whose sample has the size of its file
PostSamples ==
    {Post(42, <<400, 800>>, <<100, 200>>, <<50, 75>>, <<10, -2>>, "s", "png"),
     Post(7, <<1280, 0>>, <<1280, 0>>, <<150, 9>>, <<0, -13>>, "e", "webm")}

\* api::Posts made of them
SampleLists == UNION {[1..n -> PostSamples] : n \in 0..MaxPosts}

\* one decimal digit
Digit(d) ==
    CASE d = 0 -> "0" [] d = 1 -> "1" [] d = 2 -> "2" [] d = 3 -> "3"
      [] d = 4 -> "4" [] d = 5 -> "5" [] d = 6 -> "6" [] d = 7 -> "7"
      [] d = 8 -> "8" [] d = 9 -> "9"

\* ToString::to_string of usize / i64
RECURSIVE to_string(_)
to_string(n) ==
    IF n < 0 THEN "-" \o to_string(-n)
    ELSE IF n < 10 THEN Digit(n)
    ELSE to_string(n \div 10) \o Digit(n % 10)

\* an element pushed with its separator after it
push_element_trailing(SEPARATOR, buf, element) ==
    buf \o element \o SEPARATOR

\* SeachMapBuilder::push_element::<SEPARATOR>: the separator (nothing for
\* ' '), then the element
push_element(SEPARATOR, buf, element) ==
    buf \o (CASE SEPARATOR = "," -> ","
              [] SEPARATOR = "\n" -> "\n"
              [] SEPARATOR = " " -> "")
        \o element

\* SeachMapBuilder::new_with_header
new_with_header(ids) ==
    LET e1 == push_element(" ", "", "600000")
        e2 == push_element(",", e1, to_string(ids.search_map))
        e3 == push_element(",", e2, to_string(ids.preview))
    IN  push_element(",", e3, to_string(ids.refresh))

\* a line that names the image's Refresher first and the image last
push_post_ids_swapped(buf, post, ids) ==
    LET e1  == push_element("\n", buf, to_string(ids.refresh))
        e2  == push_element(",", e1, to_string(post.id))
        e3  == push_element(",", e2, to_string(post.sample.width))
        e4  == push_element(",", e3, to_string(post.sample.height))
        e5  == push_element(",", e4, to_string(post.preview.width))
        e6  == push_element(",", e5, to_string(post.preview.height))
        e7  == push_element(",", e6, to_string(post.score.up))
        e8  == push_element(",", e7, to_string(post.score.down))
        e9  == push_element(",", e8, post.rating)
        e10 == push_element(",", e9, post.file.ext)
        e11 == push_element(",", e10, to_string(ids.post))
    IN  push_element(",", e11, "1200000")

\* SeachMapBuilder::push_post
push_post(buf, post, ids) ==
    LET e1  == push_element("\n", buf, to_string(ids.post))
        e2  == push_element(",", e1, to_string(post.id))
        e3  == push_element(",", e2, to_string(post.sample.width))
        e4  == push_element(",", e3, to_string(post.sample.height))
        e5  == push_element(",", e4, to_string(post.preview.width))
        e6  == push_element(",", e5, to_string(post.preview.height))
        e7  == push_element(",", e6, to_string(post.score.up))
        e8  == push_element(",", e7, to_string(post.score.down))
        e9  == push_element(",", e8, post.rating)
        e10 == push_element(",", e9, post.file.ext)
        e11 == push_element(",", e10, to_string(ids.refresh))
    IN  push_element(",", e11, "1200000")

\* SeachMapBuilder::into_query
into_query(buf) == buf

\* links.rs:167-168: the for loop of setup_links over post_ids, the posts
\* zipped with their ids in the order of the posts
RECURSIVE PushPosts(_, _, _, _)
PushPosts(buf, ps, post_ids, i) ==
    IF i > Len(ps) \/ i > Len(post_ids) THEN buf
    ELSE PushPosts(push_post(buf, ps[i], post_ids[i]), ps, post_ids, i + 1)

\* links.rs:163-180: the SearchMap setup_links returns for posts ps on a
\* registry with the given keys
SearchMapOf(ps, ids) ==
    into_query(PushPosts(new_with_header(ids.header_ids), ps, ids.post_ids, 1))

(* ----------------------- query.rs: QueryBuilder ----------------------- *)

\* self.0.chars().last() is None or Some('\n')
AtLineStart(buf) == buf = "" \/ SubSeq(buf, Len(buf), Len(buf)) = "\n"

\* QueryBuilder::new
QueryBuilder_new == ""

\* QueryBuilder::push_element: a comma unless the buffer is empty or ends
\* with a newline, then the element
QueryBuilder_push_element(buf, element) ==
    (IF AtLineStart(buf) THEN buf ELSE buf \o ",") \o element

\* QueryBuilder::push_newline
QueryBuilder_push_newline(buf) == buf \o "\n"

\* QueryBuilder::push_header
QueryBuilder_push_header(buf, reget, previews, refresh) ==
    LET e1 == QueryBuilder_push_element(buf, "600000")
        e2 == QueryBuilder_push_element(e1, to_string(reget))
        e3 == QueryBuilder_push_element(e2, to_string(previews))
    IN  QueryBuilder_push_element(e3, to_string(refresh))

\* QueryBuilder::push_post, ids being the pair (ids.0, ids.1)
QueryBuilder_push_post(buf, post, ids) ==
    LET e0  == QueryBuilder_push_newline(buf)
        e1  == QueryBuilder_push_element(e0, to_string(ids[1]))
        e2  == QueryBuilder_push_element(e1, to_string(post.id))
        e3  == QueryBuilder_push_element(e2, to_string(post.file.width))
        e4  == QueryBuilder_push_element(e3, to_string(post.file.height))
        e5  == QueryBuilder_push_element(e4, to_string(post.preview.width))
        e6  == QueryBuilder_push_element(e5, to_string(post.preview.height))
        e7  == QueryBuilder_push_element(e6, to_string(post.score.up))
        e8  == QueryBuilder_push_element(e7, to_string(post.score.down))
        e9  == QueryBuilder_push_element(e8, post.rating)
        e10 == QueryBuilder_push_element(e9, post.file.ext)
        e11 == QueryBuilder_push_element(e10, to_string(ids[2]))
    IN  QueryBuilder_push_element(e11, "1200000")

\* QueryBuilder::into_query
QueryBuilder_into_query(buf) == buf

\* push_post for each post in turn, with the post's pair of ids
RECURSIVE QueryBuilder_PushPosts(_, _, _, _)
QueryBuilder_PushPosts(buf, ps, post_ids, i) ==
    IF i > Len(ps) \/ i > Len(post_ids) THEN buf
    ELSE QueryBuilder_PushPosts(
             QueryBuilder_push_post(buf, ps[i],
                 <<post_ids[i].post, post_ids[i].refresh>>),
             ps, post_ids, i + 1)

\* the string QueryBuilder makes of the header ids, the posts and their ids
QueryOf(ps, ids) ==
    QueryBuilder_into_query(
        QueryBuilder_PushPosts(
            QueryBuilder_push_header(QueryBuilder_new, ids.header_ids.search_map,
                ids.header_ids.preview, ids.header_ids.refresh),
            ps, ids.post_ids, 1))

(* ----------------------------- refresh.rs ----------------------------- *)

\* the state of one attachment: its task's position, the time left on its
\* sleep, the unread messages of its broadcast receiver (2: more than the
\* channel's capacity of 1, the receiver has lagged), the message in its
\* private mpsc channel of capacity 1, whether the broadcast branch of the
\* current select! is disabled, and (history) whether a group pulse was sent
\* in the current step of the clock while the sleep had time left and the
\* sleep was not started anew since
NoAtt == [pc |-> "none", left |-> 0, many |-> 0, one |-> 0, off |-> FALSE,
          owed |-> FALSE]

Readers == 1..MaxReaders

\* Option::None, the absent value of an Option<Image>; an image stands for
\* the Some that holds it
None == "None"

\* Result<Image, reqwest::Error>
Ok(image) == [is_ok |-> TRUE, val |-> image]
Err(error) == [is_ok |-> FALSE, val |-> error]

\* api.rs:63-76: what the fetch of an image can return
FetchResults == {Ok("hello"), Ok("other"), Err("reqwest::Error")}

\* no fetch has returned
NoResult == [is_ok |-> FALSE, val |-> "none"]

\* the error of the fetch is handed on as if it were the image
ok_keeps_error(res) == res.val

\* links.rs:175: .map(Result::ok): an Ok becomes Some, an Err becomes None
ok(res) == IF res.is_ok THEN res.val ELSE None

\* main.rs:147, 156: Image::placeholder, the image served for a missing one
placeholder == "placeholder"

\* main.rs:143-148, 152-157: .clone().unwrap_or_else(Image::placeholder)
unwrap_or_else(value, default) == IF value = None THEN default ELSE value

\* the outputs a memoized computation can have (links.rs:175, 181: both
\* cells are cells of an Option<Image>)
Values == {ok(res) : res \in FetchResults}

\* an OnceCell without a value
Empty == "empty"

\* the holder of a semaphore's or a mutex's one permit
PermitFree == [st |-> "free", who |-> 0]

PermitTask == [st |-> "task", who |-> 0]

PermitClosed == [st |-> "closed", who |-> 0]

PermitOf(r) == [st |-> "reader", who |-> r]

Duration(s) == IF s = 0 THEN HEADER_TTL ELSE IMAGE_TTL

\* receivers that come to be only when the spawned task is first polled
RecvLiveOncePolled(a) == a.pc = "loop"

\* the attachment's task is in its loop, or about to enter it: what is sent
\* to its receivers will be received
RecvLive(a) == a.pc \in {"spawned", "loop"}

\* the attachment's task has a step to take without waiting
Runnable(a) ==
    \/ a.pc = "spawned"
    \/ a.pc = "loop" /\ (a.left = 0 \/ (~a.off /\ a.many > 0) \/ a.one > 0)

(* ----------------------------- variables ------------------------------ *)

VARIABLES
    inner,      \* LinkMap.inner: the registry, a function from ids to Links
    writer,     \* the batches whose setup_links holds the write guard
    spc,        \* spc[b]: the position of the setup_links call of batch b
    posts,      \* posts[b]: the argument of the call
    iter,       \* iter[b]: the index of the next post of the for loop
    alloc,      \* alloc[b]: (post_ids, header_ids) returned by get_free_ids
    before,     \* before[b]: the keys of the registry when b took the lock
    bar,        \* bar[b]: the barrier of Promise::new of b's preview
    att,        \* att[b][s]: the attachments of batch b
    held,       \* the Link a link handler got from the registry and holds
    conc,       \* the pairs of batches whose setup_links calls overlapped
    pnew,       \* the position of the caller of Promise::new
    ptask,      \* the position of the task Promise::new spawns
    pcell,      \* Promise.item: the OnceCell's value
    ppermit,    \* the holder of that OnceCell's initialization permit
    lobj,       \* whether LazyPromise::new has run
    lcell,      \* LazyPromise.item: the OnceCell's value
    lpermit,    \* the holder of that OnceCell's initialization permit
    lmutex,     \* the holder of the Mutex of LazyPromise.fut
    lfut,       \* the boxed future: unstarted, running or finished
    lruns,      \* how often the boxed future produced its output
    lres,       \* (history) what the fetch inside the boxed future returned
    lcalled,    \* whether LazyPromise::get was ever called
    rpc,        \* rpc[r]: the position of reader r
    pgot,       \* pgot[r]: the value reader r's last Promise::get returned
    lgot,       \* lgot[r]: the value r's last LazyPromise::get returned
    fin,        \* the arguments of a call of a function taken by itself
    fout,       \* what that call returned
    guard       \* whether the read guard of the link handler is alive

lvars == <<inner, writer, spc, posts, iter, alloc, before, bar, att, held, conc>>

pvars == <<pnew, ptask, pcell, ppermit, lobj, lcell, lpermit, lmutex, lfut,
           lruns, lres, lcalled, rpc, pgot, lgot>>

fvars == <<fin, fout>>

hvars == <<guard>>

vars == <<lvars, pvars, fvars, hvars>>

\* the setup_links call of batch b was made and has not returned
InFlight(b) ==
    spc[b] \in {"wait", "loop", "insert", "barrier", "hinsert", "ret"}

(* ----------------------------- the lock ------------------------------- *)

\* a lock that every caller is granted at once
WriteLockFreeAlways == TRUE

\* RwLock::write / RwLock::read is granted: no write guard is alive
WriteLockFree == writer = {}

\* RwLock::write is granted only when no read guard is alive either
NoReadGuard == ~guard

(* ------------------------------- Init --------------------------------- *)

\* no function is called by itself
NoInput == [kind |-> "none", keys |-> {}, posts |-> <<>>, query |-> <<>>]

NoOutput == [done |-> FALSE, alloc |-> NoIds, text |-> "", page |-> <<>>,
             tags |-> <<>>, qdone |-> FALSE, qtext |-> "", map |-> <<>>]

\* the server after main has started it: an empty registry, no batch, no
\* Promise
InitServer ==
    /\ inner = <<>>
    /\ writer = {}
    /\ spc = [b \in Batches |-> "idle"]
    /\ posts = [b \in Batches |-> <<>>]
    /\ iter = [b \in Batches |-> 0]
    /\ alloc = [b \in Batches |-> NoIds]
    /\ before = [b \in Batches |-> {}]
    /\ bar = [b \in Batches |-> "none"]
    /\ att = [b \in Batches |-> [s \in Slots |-> NoAtt]]
    /\ held = NoLink
    /\ conc = {}
    /\ pnew = "start"
    /\ ptask = "none"
    /\ pcell = Empty
    /\ ppermit = PermitFree
    /\ lobj = "none"
    /\ lcell = Empty
    /\ lpermit = PermitFree
    /\ lmutex = PermitFree
    /\ lfut = "unstarted"
    /\ lruns = 0
    /\ lres = NoResult
    /\ lcalled = FALSE
    /\ rpc = [r \in Readers |-> "idle"]
    /\ pgot = [r \in Readers |-> "none"]
    /\ lgot = [r \in Readers |-> "none"]
    /\ guard = FALSE

Init ==
    /\ InitServer
    /\ fin = NoInput
    /\ fout = NoOutput

(* ---------------------------- setup_links ----------------------------- *)

\* the search handler calls setup_links(posts); the call waits for the lock
SetupCall(b, ps) ==
    /\ spc[b] = "idle"
    /\ \A c \in Batches : c < b => spc[c] # "idle"
    /\ spc' = [spc EXCEPT ![b] = "wait"]
    /\ posts' = [posts EXCEPT ![b] = ps]
    /\ conc' = conc \cup {{b, c} : c \in {c \in Batches : InFlight(c)}}
    /\ UNCHANGED <<inner, writer, iter, alloc, before, bar, att, held>>
    /\ UNCHANGED <<pvars, fvars, hvars>>

\* links.rs:160-165: the write lock is granted, get_free_ids
SetupAcquire(b) ==
    /\ spc[b] = "wait"
    /\ WriteLockFree
    /\ NoReadGuard
    /\ writer' = writer \cup {b}
    /\ alloc' = [alloc EXCEPT ![b] = get_free_ids(inner, posts[b])]
    /\ before' = [before EXCEPT ![b] = DOMAIN inner]
    /\ iter' = [iter EXCEPT ![b] = 1]
    /\ spc' = [spc EXCEPT ![b] = "loop"]
    /\ UNCHANGED <<inner, posts, bar, att, held, conc>>
    /\ UNCHANGED <<pvars, fvars, hvars>>

\* links.rs:167-172: one turn of the loop, first half: push_post and
\* attach_with_local, which spawns the attachment's task
SetupPost(b) ==
    /\ spc[b] = "loop"
    /\ iter[b] <= Len(posts[b])
    /\ att' = [att EXCEPT ![b][iter[b]] = [NoAtt EXCEPT !.pc = "spawned"]]
    /\ spc' = [spc EXCEPT ![b] = "insert"]
    /\ UNCHANGED <<inner, writer, posts, iter, alloc, before, bar, held, conc>>
    /\ UNCHANGED <<pvars, fvars, hvars>>

\* links.rs:174-177: second half: LazyPromise::new, insert_image
SetupInsert(b) ==
    /\ spc[b] = "insert"
    /\ inner' = insert_image(inner, alloc[b].post_ids[iter[b]], b, iter[b])
    /\ iter' = [iter EXCEPT ![b] = @ + 1]
    /\ spc' = [spc EXCEPT ![b] = "loop"]
    /\ UNCHANGED <<writer, posts, alloc, before, bar, att, held, conc>>
    /\ UNCHANGED <<pvars, fvars, hvars>>

\* links.rs:180-181: into_query, Promise::new spawns its task and waits at
\* the barrier
SetupPromise(b) ==
    /\ spc[b] = "loop"
    /\ iter[b] > Len(posts[b])
    /\ bar' = [bar EXCEPT ![b] = "spawned"]
    /\ spc' = [spc EXCEPT ![b] = "barrier"]
    /\ UNCHANGED <<inner, writer, posts, iter, alloc, before, att, held, conc>>
    /\ UNCHANGED <<pvars, fvars, hvars>>

\* a spawned task that takes the registry's lock before it reaches the
\* barrier
PreviewTaskNeedsLock(b) == WriteLockFree

\* promise.rs:39-42: what the spawned task awaits before bar.wait(): it
\* builds the future of get_or_init and takes no lock
PreviewTaskCanRun(b) == TRUE

\* promise.rs:39-42: the spawned task reaches bar.wait()
PreviewArrive(b) ==
    /\ bar[b] = "spawned"
    /\ PreviewTaskCanRun(b)
    /\ bar' = [bar EXCEPT ![b] = "arrived"]
    /\ UNCHANGED <<inner, writer, spc, posts, iter, alloc, before, att, held, conc>>
    /\ UNCHANGED <<pvars, fvars, hvars>>

\* links.rs:181-188: Promise::new returned; attach spawns the header's
\* attachment task
SetupHeader(b) ==
    /\ spc[b] = "barrier"
    /\ bar[b] = "arrived"
    /\ att' = [att EXCEPT ![b][0] = [NoAtt EXCEPT !.pc = "spawned"]]
    /\ spc' = [spc EXCEPT ![b] = "hinsert"]
    /\ UNCHANGED <<inner, writer, posts, iter, alloc, before, bar, held, conc>>
    /\ UNCHANGED <<pvars, fvars, hvars>>

\* links.rs:190-194: insert_preview, insert_query
SetupInsertHeader(b) ==
    /\ spc[b] = "hinsert"
    /\ inner' = insert_query(insert_preview(inner, alloc[b].header_ids, b),
                             alloc[b].header_ids, b)
    /\ spc' = [spc EXCEPT ![b] = "ret"]
    /\ UNCHANGED <<writer, posts, iter, alloc, before, bar, att, held, conc>>
    /\ UNCHANGED <<pvars, fvars, hvars>>

\* links.rs:196-197: the SearchMap is returned and the write guard dropped
SetupReturn(b) ==
    /\ spc[b] = "ret"
    /\ writer' = writer \ {b}
    /\ before' = [before EXCEPT ![b] = {}]
    /\ spc' = [spc EXCEPT ![b] = "done"]
    /\ UNCHANGED <<inner, posts, iter, alloc, bar, att, held, conc>>
    /\ UNCHANGED <<pvars, fvars, hvars>>

(* ---------------------- the attachments' tasks ------------------------ *)

\* the spawned task is polled for the first time: select! arms sleep(len)
AttStart(b, s) ==
    /\ att[b][s].pc = "spawned"
    /\ att' = [att EXCEPT ![b][s].pc = "loop", ![b][s].left = Duration(s),
                          ![b][s].owed = FALSE]
    /\ UNCHANGED <<inner, writer, spc, posts, iter, alloc, before, bar, held, conc>>
    /\ UNCHANGED <<pvars, fvars, hvars>>

\* () = sleep(..) => break: the receivers are never polled again (what is
\* sent to them from now on is lost), the teardown future starts and waits
\* for the write lock
AttTimeout(b, s) ==
    /\ att[b][s].pc = "loop"
    /\ att[b][s].left = 0
    /\ att' = [att EXCEPT ![b][s] = [NoAtt EXCEPT !.pc = "expired"]]
    /\ UNCHANGED <<inner, writer, spc, posts, iter, alloc, before, bar, held, conc>>
    /\ UNCHANGED <<pvars, fvars, hvars>>

\* a timer that a pulse only prolongs by one step of the clock
SleepProlonged(s, left) == Min(left + TickLen, Duration(s))

\* refresh.rs:50-52, 76-78: the next turn of the loop makes a new
\* sleep(Duration::from_secs(len)), whatever was left on the last one
SleepAnew(s, left) == Duration(s)

\* Ok(()) = many.recv() => (): the loop starts over with a new sleep(len)
AttRecvMany(b, s) ==
    /\ att[b][s].pc = "loop"
    /\ ~att[b][s].off
    /\ att[b][s].many = 1
    /\ att' = [att EXCEPT ![b][s].many = 0,
                          ![b][s].left = SleepAnew(s, att[b][s].left),
                          ![b][s].owed = FALSE]
    /\ UNCHANGED <<inner, writer, spc, posts, iter, alloc, before, bar, held, conc>>
    /\ UNCHANGED <<pvars, fvars, hvars>>

\* many.recv() is Err(Lagged): the pattern Ok(()) does not match, select!
\* disables the branch and goes on waiting for its other branches; the
\* receiver now stands at the one message the channel kept
AttRecvLagged(b, s) ==
    /\ att[b][s].pc = "loop"
    /\ ~att[b][s].off
    /\ att[b][s].many = 2
    /\ att' = [att EXCEPT ![b][s].many = 1, ![b][s].off = TRUE]
    /\ UNCHANGED <<inner, writer, spc, posts, iter, alloc, before, bar, held, conc>>
    /\ UNCHANGED <<pvars, fvars, hvars>>

\* Some(()) = one.recv() => (): the loop starts over with a new sleep(len)
\* and a new many.recv()
AttRecvOne(b, s) ==
    /\ s > 0
    /\ att[b][s].pc = "loop"
    /\ att[b][s].one = 1
    /\ att' = [att EXCEPT ![b][s].one = 0,
                          ![b][s].left = SleepAnew(s, att[b][s].left),
                          ![b][s].off = FALSE, ![b][s].owed = FALSE]
    /\ UNCHANGED <<inner, writer, spc, posts, iter, alloc, before, bar, held, conc>>
    /\ UNCHANGED <<pvars, fvars, hvars>>

\* the teardown future of the attachment: the write lock is granted, the
\* attachment's entries are removed, the guard is dropped
Teardown(b, s) ==
    /\ att[b][s].pc = "expired"
    /\ WriteLockFree
    /\ NoReadGuard
    /\ inner' = IF s = 0
                THEN remove_preview(remove_query(inner, alloc[b].header_ids),
                                    alloc[b].header_ids)
                ELSE remove_image(inner, alloc[b].post_ids[s])
    /\ att' = [att EXCEPT ![b][s].pc = "done"]
    /\ UNCHANGED <<writer, spc, posts, iter, alloc, before, bar, held, conc>>
    /\ UNCHANGED <<pvars, fvars, hvars>>

\* TickLen seconds pass on every armed sleep. TickLen is hundreds of
\* seconds, so whatever can run without waiting for a timer or for a client
\* (a setup_links call, an attachment's poll, a teardown, a handler that
\* holds a Refresher) has run before the clock's next step.
Tick ==
    /\ \A b \in Batches, s \in Slots :
          ~Runnable(att[b][s]) /\ att[b][s].pc # "expired"
    /\ \A b \in Batches : spc[b] \in {"idle", "done"}
    /\ held = NoLink
    /\ \E b \in Batches, s \in Slots : att[b][s].pc = "loop"
    /\ att' = [b \in Batches |-> [s \in Slots |->
                 IF att[b][s].pc = "loop"
                 THEN [att[b][s] EXCEPT !.left = @ - TickLen, !.owed = FALSE]
                 ELSE att[b][s]]]
    /\ UNCHANGED <<inner, writer, spc, posts, iter, alloc, before, bar, held, conc>>
    /\ UNCHANGED <<pvars, fvars, hvars>>

\* the sleep of an attachment whose duration is left out: it may end at any
\* moment, whatever pulses were sent
AttExpire(b, s) ==
    /\ att[b][s].pc = "loop"
    /\ att' = [att EXCEPT ![b][s] = [NoAtt EXCEPT !.pc = "expired"]]
    /\ UNCHANGED <<inner, writer, spc, posts, iter, alloc, before, bar, held, conc>>
    /\ UNCHANGED <<pvars, fvars, hvars>>

(* ------------------------- the link handler --------------------------- *)

\* a Refresher whose every pulse is sent on the batch's broadcast channel
refreshAsGroup(link, a) ==
    [a EXCEPT ![link.batch] = [s \in Slots |->
        IF RecvLive(a[link.batch][s])
        THEN [a[link.batch][s] EXCEPT !.many = Min(@ + 1, 2)]
        ELSE a[link.batch][s]]]

\* a Refresher whose pulse starts the timer of an attachment that has left
\* its loop
refreshRevive(link, a) ==
    [a EXCEPT ![link.batch] = [s \in Slots |->
        IF (link.kind = "RefreshSearch" \/ s = link.slot)
           /\ a[link.batch][s].pc \in {"expired", "done"}
        THEN [a[link.batch][s] EXCEPT !.pc = "loop", !.left = Duration(s)]
        ELSE a[link.batch][s]]]

\* Refresher::refresh: One is mpsc try_send (dropped when the slot is full
\* or the receiver gone), Many is broadcast send to every receiver alive
refresh(link, a) ==
    IF link.kind = "RefreshImage"
    THEN [a EXCEPT ![link.batch][link.slot].one =
                     IF RecvLive(a[link.batch][link.slot]) THEN 1 ELSE @]
    ELSE [a EXCEPT ![link.batch] = [s \in Slots |->
                     IF RecvLive(a[link.batch][s])
                     THEN [a[link.batch][s] EXCEPT
                             !.many = Min(@ + 1, 2),
                             !.owed = @ \/ a[link.batch][s].pc = "spawned"
                                        \/ a[link.batch][s].left > 0]
                     ELSE a[link.batch][s]]]

\* main.rs:120-129: LinkMap::get_ref().await.get(id); the read guard is
\* dropped at the end of the statement. A Refresher is held until pulsed.
Lookup(id) ==
    /\ held = NoLink
    /\ WriteLockFree
    /\ LET link == get(inner, id)
       IN  held' = IF link.kind \in {"RefreshImage", "RefreshSearch"}
                   THEN link ELSE NoLink
    /\ UNCHANGED <<inner, writer, spc, posts, iter, alloc, before, bar, att, conc>>
    /\ UNCHANGED <<pvars, fvars, hvars>>

\* main.rs:120-126: a request for a link came in, its handler awaits
\* LinkMap::get_ref()
LookupWait ==
    /\ held = NoLink
    /\ held' = Link("Waiting", 0, 0)
    /\ UNCHANGED <<inner, writer, spc, posts, iter, alloc, before, bar, att, conc>>
    /\ UNCHANGED <<pvars, fvars, hvars>>

\* main.rs:126-129: the read guard is granted to the waiting handler, get(id)
\* is called and the guard dropped; id is the request's
LookupGranted(id) ==
    /\ held.kind = "Waiting"
    /\ WriteLockFree
    /\ LET link == get(inner, id)
       IN  held' = IF link.kind \in {"RefreshImage", "RefreshSearch"}
                   THEN link ELSE NoLink
    /\ UNCHANGED <<inner, writer, spc, posts, iter, alloc, before, bar, att, conc>>
    /\ UNCHANGED <<pvars, fvars, hvars>>

\* main.rs:136-139, 161-165: refresh.refresh()
Pulse ==
    /\ held.kind \in {"RefreshImage", "RefreshSearch"}
    /\ att' = refresh(held, att)
    /\ held' = NoLink
    /\ UNCHANGED <<inner, writer, spc, posts, iter, alloc, before, bar, conc>>
    /\ UNCHANGED <<pvars, fvars, hvars>>

\* refresh.refresh() where durations are left out: a pulse only postpones a
\* timeout, and AttExpire lets every timeout come at any moment
PulseUntimed ==
    /\ held.kind \in {"RefreshImage", "RefreshSearch"}
    /\ held' = NoLink
    /\ UNCHANGED <<inner, writer, spc, posts, iter, alloc, before, bar, att, conc>>
    /\ UNCHANGED <<pvars, fvars, hvars>>

\* a handler that keeps its read guard while it awaits the value
GuardKeptForValue(link) == link.kind \in {"Image", "Previews"}

\* main.rs:126-129: whether the read guard outlives the let statement of
\* the lookup: it is a temporary of that statement, dropped at its end
GuardAfterGet(link) == FALSE

\* main.rs:126-129, 141-157: the lookup of the id of an image or of a
\* preview; the handler goes on to await Promise::get / LazyPromise::get
LookupValue(id) ==
    /\ held = NoLink
    /\ WriteLockFree
    /\ get(inner, id).kind \in {"Image", "Previews"}
    /\ held' = get(inner, id)
    /\ guard' = GuardAfterGet(get(inner, id))
    /\ UNCHANGED <<inner, writer, spc, posts, iter, alloc, before, bar, att, conc>>
    /\ UNCHANGED <<pvars, fvars>>

\* a handler that pulses the Refresher of what it serves
ReadAlsoRefreshes(link, a) ==
    IF link.kind = "Image"
    THEN refresh(Link("RefreshImage", link.batch, link.slot), a)
    ELSE refresh(Link("RefreshSearch", link.batch, 0), a)

\* main.rs:141-160: what the arms of Link::Previews and Link::Image do to
\* the attachments: they call get, clone and into_response, no refresh
ReadEffect(link, a) == a

\* main.rs:143-148, 152-157: image.get().await returns, the response is
\* built, the handler ends and drops what it holds
Serve ==
    /\ held.kind \in {"Image", "Previews"}
    /\ held' = NoLink
    /\ guard' = FALSE
    /\ att' = ReadEffect(held, att)
    /\ UNCHANGED <<inner, writer, spc, posts, iter, alloc, before, bar, conc>>
    /\ UNCHANGED <<pvars, fvars>>

(* ------------------------------- Next --------------------------------- *)

\* the steps of setup_links and of the task Promise::new spawns
SetupStep ==
    \/ \E b \in Batches : SetupAcquire(b)
    \/ \E b \in Batches : SetupPost(b)
    \/ \E b \in Batches : SetupInsert(b)
    \/ \E b \in Batches : SetupPromise(b)
    \/ \E b \in Batches : PreviewArrive(b)
    \/ \E b \in Batches : SetupHeader(b)
    \/ \E b \in Batches : SetupInsertHeader(b)
    \/ \E b \in Batches : SetupReturn(b)

\* the registry and its lock, with every timer free to fire at any moment
Next ==
    \/ \E b \in Batches, ps \in PostLists : SetupCall(b, ps)
    \/ SetupStep
    \/ \E b \in Batches, s \in Slots : AttStart(b, s)
    \/ \E b \in Batches, s \in Slots : AttExpire(b, s)
    \/ \E b \in Batches, s \in Slots : Teardown(b, s)
    \/ \E id \in IdPool : Lookup(id)
    \/ PulseUntimed

Spec == Init /\ [][Next]_vars

\* the registry and its lock, with the handlers of every kind of link
NextServe ==
    \/ Next
    \/ \E id \in IdPool : LookupValue(id)
    \/ Serve

SpecServe == Init /\ [][NextServe]_vars

\* api::Posts of at most MaxLockPosts posts
LockPostLists == {ps \in PostLists : Len(ps) <= MaxLockPosts}

\* the registry and its lock, with handlers that wait for the read guard
NextLock ==
    \/ \E b \in Batches, ps \in LockPostLists : SetupCall(b, ps)
    \/ SetupStep
    \/ \E b \in Batches, s \in Slots : AttStart(b, s)
    \/ \E b \in Batches, s \in Slots : AttExpire(b, s)
    \/ \E b \in Batches, s \in Slots : Teardown(b, s)
    \/ LookupWait
    \/ \E id \in IdPool : LookupGranted(id)
    \/ PulseUntimed

SpecLock == Init /\ [][NextLock]_vars

\* the steps setup_links takes while it holds the write guard, and those of
\* the task Promise::new spawned
SetupUnderLock(b) ==
    \/ SetupPost(b) \/ SetupInsert(b) \/ SetupPromise(b) \/ PreviewArrive(b)
    \/ SetupHeader(b) \/ SetupInsertHeader(b) \/ SetupReturn(b)

\* the tokio scheduler polls every task that can run, and a task that
\* waits for the lock is granted it when the lock stays free (tokio's
\* RwLock serves its waiters in the order they came, which is more than
\* is asked for here). Clients may or may not send requests, timers may or
\* may not run out.
FairSpecLock ==
    /\ SpecLock
    /\ \A b \in Batches : WF_vars(SetupAcquire(b)) /\ WF_vars(SetupUnderLock(b))
    /\ \A b \in Batches, s \in Slots : WF_vars(Teardown(b, s))
    /\ WF_vars(\E id \in IdPool : LookupGranted(id))

\* one batch with its clock, its timers and its pulses
NextTimed ==
    \/ \E ps \in PostLists : SetupCall(1, ps)
    \/ SetupStep
    \/ \E b \in Batches, s \in Slots : AttStart(b, s)
    \/ \E b \in Batches, s \in Slots : AttTimeout(b, s)
    \/ \E b \in Batches, s \in Slots : AttRecvMany(b, s)
    \/ \E b \in Batches, s \in Slots : AttRecvLagged(b, s)
    \/ \E b \in Batches, s \in Slots : AttRecvOne(b, s)
    \/ \E b \in Batches, s \in Slots : Teardown(b, s)
    \/ Tick
    \/ \E id \in IdPool : Lookup(id)
    \/ Pulse

SpecTimed == Init /\ [][NextTimed]_vars

\* one batch with its clock, its timers, its pulses and the handlers of
\* every kind of link
NextTimedServe ==
    \/ NextTimed
    \/ \E id \in IdPool : LookupValue(id)
    \/ Serve

SpecTimedServe == Init /\ [][NextTimedServe]_vars

\* the tokio scheduler polls every task that can run: setup_links and the
\* task of its Promise, the attachments' tasks and their teardown futures;
\* clients may or may not send requests, and the clock may or may not go on
FairSpecTimed ==
    /\ SpecTimed
    /\ WF_vars(SetupStep)
    /\ \A b \in Batches, s \in Slots :
          /\ WF_vars(AttStart(b, s))
          /\ WF_vars(AttTimeout(b, s))
          /\ WF_vars(Teardown(b, s))

(* ----------------------------- promise.rs ----------------------------- *)

\* OnceCell::initialized
Initialized(cell) == cell # Empty

(* Promise: promise.rs:28-55 *)

\* promise.rs:28-46: Promise::new creates the cell and the Barrier of 2,
\* spawns the task and waits at bar_c.wait()
PromiseNew ==
    /\ pnew = "start"
    /\ pnew' = "wait"
    /\ ptask' = "spawned"
    /\ UNCHANGED <<pcell, ppermit, lobj, lcell, lpermit, lmutex, lfut, lruns,
                   lcalled, rpc, pgot, lgot>>
    /\ UNCHANGED <<lres, lvars, fvars, hvars>>

\* promise.rs:39-42: the task builds the future `initer` of get_or_init,
\* which runs nothing until it is awaited, and reaches bar.wait()
TaskArrive ==
    /\ ptask = "spawned"
    /\ ptask' = "barrier"
    /\ UNCHANGED <<pnew, pcell, ppermit, lobj, lcell, lpermit, lmutex, lfut,
                   lruns, lcalled, rpc, pgot, lgot>>
    /\ UNCHANGED <<lres, lvars, fvars, hvars>>

\* promise.rs:47-48: both parties are at the barrier: bar_c.wait() returns
\* and Promise::new returns Self { item }
NewReturn ==
    /\ pnew = "wait"
    /\ ptask # "spawned"
    /\ pnew' = "ret"
    /\ UNCHANGED <<ptask, pcell, ppermit, lobj, lcell, lpermit, lmutex, lfut,
                   lruns, lcalled, rpc, pgot, lgot>>
    /\ UNCHANGED <<lres, lvars, fvars, hvars>>

\* promise.rs:42-44: bar.wait() returns in the task, which goes on to await
\* initer
TaskPass ==
    /\ ptask = "barrier"
    /\ pnew \in {"wait", "ret"}
    /\ ptask' = "acquire"
    /\ UNCHANGED <<pnew, pcell, ppermit, lobj, lcell, lpermit, lmutex, lfut,
                   lruns, lcalled, rpc, pgot, lgot>>
    /\ UNCHANGED <<lres, lvars, fvars, hvars>>

\* promise.rs:44: initer is polled: get_or_init takes the cell's permit and
\* starts to drive fut
TaskAcquire ==
    /\ ptask = "acquire"
    /\ ppermit = PermitFree
    /\ ~Initialized(pcell)
    /\ ptask' = "drive"
    /\ ppermit' = PermitTask
    /\ UNCHANGED <<pnew, pcell, lobj, lcell, lpermit, lmutex, lfut, lruns,
                   lcalled, rpc, pgot, lgot>>
    /\ UNCHANGED <<lres, lvars, fvars, hvars>>

\* promise.rs:44: fut completes with v, get_or_init stores v in the cell and
\* closes the cell's semaphore
TaskComplete(v) ==
    /\ ptask = "drive"
    /\ pcell' = v
    /\ ppermit' = PermitClosed
    /\ ptask' = "done"
    /\ UNCHANGED <<pnew, lobj, lcell, lpermit, lmutex, lfut, lruns, lcalled,
                   rpc, pgot, lgot>>
    /\ UNCHANGED <<lres, lvars, fvars, hvars>>

\* promise.rs:52-55: Promise::get on the handle Promise::new returned:
\* get_or_init returns a value the cell holds, and else waits for the permit
PromiseGet(r) ==
    /\ pnew = "ret"
    /\ rpc[r] = "idle"
    /\ IF Initialized(pcell)
       THEN /\ pgot' = [pgot EXCEPT ![r] = pcell]
            /\ rpc' = rpc
       ELSE /\ pgot' = [pgot EXCEPT ![r] = "none"]
            /\ rpc' = [rpc EXCEPT ![r] = "pwait"]
    /\ UNCHANGED <<pnew, ptask, pcell, ppermit, lobj, lcell, lpermit, lmutex,
                   lfut, lruns, lcalled, lgot>>
    /\ UNCHANGED <<lres, lvars, fvars, hvars>>

\* promise.rs:54: the reader's get_or_init is granted the permit and awaits
\* its initializer, futures::future::pending, which never completes
ReaderAcquire(r) ==
    /\ rpc[r] = "pwait"
    /\ ppermit = PermitFree
    /\ ~Initialized(pcell)
    /\ ppermit' = PermitOf(r)
    /\ rpc' = [rpc EXCEPT ![r] = "pinit"]
    /\ UNCHANGED <<pnew, ptask, pcell, lobj, lcell, lpermit, lmutex, lfut,
                   lruns, lcalled, pgot, lgot>>
    /\ UNCHANGED <<lres, lvars, fvars, hvars>>

\* promise.rs:54: the cell was filled and its semaphore closed: the waiting
\* get_or_init returns the value
ReaderWake(r) ==
    /\ rpc[r] = "pwait"
    /\ Initialized(pcell)
    /\ pgot' = [pgot EXCEPT ![r] = pcell]
    /\ rpc' = [rpc EXCEPT ![r] = "idle"]
    /\ UNCHANGED <<pnew, ptask, pcell, ppermit, lobj, lcell, lpermit, lmutex,
                   lfut, lruns, lcalled, lgot>>
    /\ UNCHANGED <<lres, lvars, fvars, hvars>>

\* the reader's request is dropped while its get is pending: a permit it
\* holds is given back
ReaderCancel(r) ==
    /\ rpc[r] \in {"pwait", "pinit"}
    /\ ppermit' = IF ppermit = PermitOf(r) THEN PermitFree ELSE ppermit
    /\ rpc' = [rpc EXCEPT ![r] = "idle"]
    /\ UNCHANGED <<pnew, ptask, pcell, lobj, lcell, lpermit, lmutex, lfut,
                   lruns, lcalled, pgot, lgot>>
    /\ UNCHANGED <<lres, lvars, fvars, hvars>>

(* LazyPromise: promise.rs:77-101 *)

\* the cell keeps no value
LazyStoreNothing(cell, v) == cell

\* promise.rs:100: get_or_init stores the value of its initializer
LazyStore(cell, v) == v

\* every caller is let into init at once
LazyCanInitUnguarded == TRUE

\* promise.rs:100: get_or_init lets one caller at a time run its initializer
LazyCanInit == lpermit = PermitFree

\* promise.rs:77-88: LazyPromise::new boxes the future and spawns nothing
LazyNew ==
    /\ lobj = "none"
    /\ lobj' = "made"
    /\ UNCHANGED <<pnew, ptask, pcell, ppermit, lcell, lpermit, lmutex, lfut,
                   lruns, lcalled, rpc, pgot, lgot>>
    /\ UNCHANGED <<lres, lvars, fvars, hvars>>

\* promise.rs:99-101: LazyPromise::get: get_or_init returns a value the cell
\* holds, and else waits for the permit
LazyGet(r) ==
    /\ lobj = "made"
    /\ rpc[r] = "idle"
    /\ lcalled' = TRUE
    /\ IF Initialized(lcell)
       THEN /\ lgot' = [lgot EXCEPT ![r] = lcell]
            /\ rpc' = rpc
       ELSE /\ lgot' = [lgot EXCEPT ![r] = "none"]
            /\ rpc' = [rpc EXCEPT ![r] = "lwait"]
    /\ UNCHANGED <<pnew, ptask, pcell, ppermit, lobj, lcell, lpermit, lmutex,
                   lfut, lruns, pgot>>
    /\ UNCHANGED <<lres, lvars, fvars, hvars>>

\* promise.rs:90-93, 100: the permit is granted and init runs: try_lock on
\* fut (a failure panics with "locked twice"), then the boxed future is
\* polled (a future polled after it finished panics). A panic unwinds the
\* caller: the permit is given back.
LazyInit(r) ==
    /\ rpc[r] = "lwait"
    /\ LazyCanInit
    /\ ~Initialized(lcell)
    /\ IF lmutex # PermitFree
       THEN /\ rpc' = [rpc EXCEPT ![r] = "locked twice"]
            /\ UNCHANGED <<lpermit, lmutex, lfut>>
       ELSE IF lfut = "finished"
       THEN /\ rpc' = [rpc EXCEPT ![r] = "polled again"]
            /\ UNCHANGED <<lpermit, lmutex, lfut>>
       ELSE /\ lpermit' = PermitOf(r)
            /\ lmutex' = PermitOf(r)
            /\ lfut' = "running"
            /\ rpc' = [rpc EXCEPT ![r] = "ldrive"]
    /\ UNCHANGED <<pnew, ptask, pcell, ppermit, lobj, lcell, lruns, lcalled,
                   pgot, lgot>>
    /\ UNCHANGED <<lres, lvars, fvars, hvars>>

\* promise.rs:92, 100, links.rs:175: the fetch inside the boxed future
\* returns res and the future completes with ok(res); the guard of fut is
\* dropped, get_or_init stores that value and returns it
LazyComplete(r, res) ==
    /\ rpc[r] = "ldrive"
    /\ lfut' = "finished"
    /\ lruns' = lruns + 1
    /\ lres' = res
    /\ lcell' = LazyStore(lcell, ok(res))
    /\ lpermit' = IF Initialized(lcell') THEN PermitClosed ELSE PermitFree
    /\ lmutex' = PermitFree
    /\ lgot' = [lgot EXCEPT ![r] = ok(res)]
    /\ rpc' = [rpc EXCEPT ![r] = "idle"]
    /\ UNCHANGED <<pnew, ptask, pcell, ppermit, lobj, lcalled, pgot>>
    /\ UNCHANGED <<lvars, fvars, hvars>>

\* promise.rs:100: the cell was filled and its semaphore closed: the waiting
\* get_or_init returns the value
LazyWake(r) ==
    /\ rpc[r] = "lwait"
    /\ Initialized(lcell)
    /\ lgot' = [lgot EXCEPT ![r] = lcell]
    /\ rpc' = [rpc EXCEPT ![r] = "idle"]
    /\ UNCHANGED <<pnew, ptask, pcell, ppermit, lobj, lcell, lpermit, lmutex,
                   lfut, lruns, lcalled, pgot>>
    /\ UNCHANGED <<lres, lvars, fvars, hvars>>

\* the reader's request is dropped while its get is pending: the permit and
\* the guard of fut it holds are given back, the boxed future stays as it is
LazyCancel(r) ==
    /\ rpc[r] \in {"lwait", "ldrive"}
    /\ lpermit' = IF lpermit = PermitOf(r) THEN PermitFree ELSE lpermit
    /\ lmutex' = IF lmutex = PermitOf(r) THEN PermitFree ELSE lmutex
    /\ rpc' = [rpc EXCEPT ![r] = "idle"]
    /\ UNCHANGED <<pnew, ptask, pcell, ppermit, lobj, lcell, lfut, lruns,
                   lcalled, pgot, lgot>>
    /\ UNCHANGED <<lres, lvars, fvars, hvars>>

NextPromise ==
    \/ PromiseNew
    \/ TaskArrive
    \/ NewReturn
    \/ TaskPass
    \/ TaskAcquire
    \/ \E v \in Values : TaskComplete(v)
    \/ \E r \in Readers : PromiseGet(r)
    \/ \E r \in Readers : ReaderAcquire(r)
    \/ \E r \in Readers : ReaderWake(r)
    \/ \E r \in Readers : ReaderCancel(r)
    \/ LazyNew
    \/ \E r \in Readers : LazyGet(r)
    \/ \E r \in Readers : LazyInit(r)
    \/ \E r \in Readers, res \in FetchResults : LazyComplete(r, res)
    \/ \E r \in Readers : LazyWake(r)
    \/ \E r \in Readers : LazyCancel(r)

SpecPromise == Init /\ [][NextPromise]_vars

\* the tokio scheduler polls every task that can run; a request may or may
\* not be dropped
FairSpecPromise ==
    /\ SpecPromise
    /\ WF_vars(TaskArrive) /\ WF_vars(NewReturn) /\ WF_vars(TaskPass)
    /\ WF_vars(TaskAcquire)
    /\ WF_vars(\E v \in Values : TaskComplete(v))
    /\ \A r \in Readers : WF_vars(ReaderAcquire(r)) /\ WF_vars(ReaderWake(r))
    /\ \A r \in Readers : WF_vars(LazyInit(r)) /\ WF_vars(LazyWake(r))
    /\ \A r \in Readers : WF_vars(\E res \in FetchResults : LazyComplete(r, res))

(* --------------------------- main.rs: search --------------------------- *)

\* a query is the sequence of its characters
Chars == {"c", " ", "1", "2", "+"}

Queries == UNION {[1..n -> Chars] : n \in 0..MaxQueryLen}

\* char::is_whitespace
is_whitespace(c) == c = " "

\* str::trim_start
RECURSIVE trim_start(_)
trim_start(q) ==
    IF q # <<>> /\ is_whitespace(Head(q)) THEN trim_start(Tail(q)) ELSE q

\* str::trim_end
RECURSIVE trim_end(_)
trim_end(q) ==
    IF q # <<>> /\ is_whitespace(q[Len(q)])
    THEN trim_end(SubSeq(q, 1, Len(q) - 1))
    ELSE q

\* main.rs:87: query.trim()
trim(q) == trim_end(trim_start(q))

\* str::split_whitespace: the maximal runs of characters that are not
\* whitespace; cur is the run being read
RECURSIVE SplitFrom(_, _)
SplitFrom(q, cur) ==
    IF q = <<>> THEN (IF cur = <<>> THEN <<>> ELSE <<cur>>)
    ELSE IF is_whitespace(Head(q))
    THEN (IF cur = <<>> THEN <<>> ELSE <<cur>>) \o SplitFrom(Tail(q), <<>>)
    ELSE SplitFrom(Tail(q), Append(cur, Head(q)))

split_whitespace(q) == SplitFrom(q, <<>>)

IsDigit(c) == c \in {"0", "1", "2", "3", "4", "5", "6", "7", "8", "9"}

\* main.rs:92: tpage.parse::<usize>().is_ok(): an optional "+" and then one
\* digit or more (no number of MaxQueryLen digits overflows a usize)
parse_usize_is_ok(tok) ==
    LET digits == IF tok # <<>> /\ Head(tok) = "+" THEN Tail(tok) ELSE tok
    IN  /\ digits # <<>>
        /\ \A i \in 1..Len(digits) : IsDigit(digits[i])

\* main.rs:87-96: the page and the tags the search handler sends upstream
search_parse(q) ==
    LET query == trim(q)
        page  == <<"1">>
        toks  == split_whitespace(query)
    IN  IF toks # <<>> /\ parse_usize_is_ok(toks[Len(toks)])
        THEN [tags |-> SubSeq(query, 1, Len(query) - Len(page)),
              page |-> toks[Len(toks)]]
        ELSE [tags |-> query, page |-> page]

(* ------------------- functions taken by themselves -------------------- *)

\* a registry that has the given keys
MapOfKeys(keys) == [k \in keys |-> NoLink]

\* the calls of get_free_ids and of the SeachMapBuilder as setup_links makes
\* them: any registry with keys up to MaxKey, any list of posts
SetupInputs ==
    {[kind |-> "setup", keys |-> ks, posts |-> ps, query |-> <<>>] :
        ks \in SUBSET (0..MaxKey), ps \in SampleLists}

\* links.rs:167-178: the insert_image calls of the loop, one for each post
\* with the post's ids, for batch b
RECURSIVE InsertImages(_, _, _, _)
InsertImages(map, post_ids, b, i) ==
    IF i > Len(post_ids) THEN map
    ELSE InsertImages(insert_image(map, post_ids[i], b, i), post_ids, b, i + 1)

\* links.rs:167-194: the registry after the inserts of setup_links
SetupInserts(map, ids, b) ==
    insert_query(insert_preview(InsertImages(map, ids.post_ids, b, 1),
                                ids.header_ids, b),
                 ids.header_ids, b)

\* links.rs:163-196: get_free_ids, new_with_header, push_post and
\* insert_image for each post, into_query, insert_preview, insert_query
ApplySetup ==
    /\ fin.kind = "setup"
    /\ ~fout.done
    /\ LET ids == get_free_ids(MapOfKeys(fin.keys), fin.posts)
       IN  fout' = [fout EXCEPT !.done = TRUE, !.alloc = ids,
                                !.text = SearchMapOf(fin.posts, ids),
                                !.map = SetupInserts(MapOfKeys(fin.keys), ids, 1)]
    /\ UNCHANGED <<fin, lvars, pvars, hvars>>

\* query.rs:18-39: QueryBuilder run on the posts and the ids the
\* SeachMapBuilder was run on
ApplyQueryBuilder ==
    /\ fin.kind = "setup"
    /\ fout.done
    /\ ~fout.qdone
    /\ fout' = [fout EXCEPT !.qdone = TRUE,
                            !.qtext = QueryOf(fin.posts, fout.alloc)]
    /\ UNCHANGED <<fin, lvars, pvars, hvars>>

\* the queries the search handler is called with
SearchInputs ==
    {[kind |-> "search", keys |-> {}, posts |-> <<>>, query |-> q] :
        q \in Queries}

\* main.rs:87-98: the search handler up to its call of api::query
ApplySearch ==
    /\ fin.kind = "search"
    /\ ~fout.done
    /\ LET r == search_parse(fin.query)
       IN  fout' = [fout EXCEPT !.done = TRUE, !.page = r.page, !.tags = r.tags]
    /\ UNCHANGED <<fin, lvars, pvars, hvars>>

FunInputs == SetupInputs \cup SearchInputs

InitFun ==
    /\ InitServer
    /\ fin \in FunInputs
    /\ fout = NoOutput

NextFun ==
    \/ ApplySetup
    \/ ApplyQueryBuilder
    \/ ApplySearch

SpecFun == InitFun /\ [][NextFun]_vars

(* ========================== the properties ============================ *)

\* the ids of batch b's slot s: the HeaderIds for slot 0, the PostIds of the
\* s-th post otherwise; none before get_free_ids has run
SlotIds(b, s) ==
    IF spc[b] \in {"idle", "wait"} THEN {}
    ELSE IF s = 0
    THEN {alloc[b].header_ids.search_map, alloc[b].header_ids.preview,
          alloc[b].header_ids.refresh}
    ELSE IF s <= Len(alloc[b].post_ids)
    THEN {alloc[b].post_ids[s].post, alloc[b].post_ids[s].refresh}
    ELSE {}

\* every id get_free_ids handed to batch b
AllIds(b) == UNION {SlotIds(b, s) : s \in Slots}

\* the ids batch b still holds: those of its slots whose teardown has not
\* run
HeldIds(b) == UNION {SlotIds(b, s) : s \in {t \in Slots : att[b][t].pc # "done"}}

\* the entries of batch b's slot s are in the registry, each under its id
Present(b, s) ==
    /\ SlotIds(b, s) \subseteq DOMAIN inner
    /\ IF s = 0
       THEN /\ inner[alloc[b].header_ids.search_map] = Link("SearchMap", b, 0)
            /\ inner[alloc[b].header_ids.preview] = Link("Previews", b, 0)
            /\ inner[alloc[b].header_ids.refresh] = Link("RefreshSearch", b, 0)
       ELSE /\ inner[alloc[b].post_ids[s].post] = Link("Image", b, s)
            /\ inner[alloc[b].post_ids[s].refresh] = Link("RefreshImage", b, s)

\* the keys of the registry that hold a Link of the given kind
KeysOfKind(kind) == {k \in DOMAIN inner : inner[k].kind = kind}

(* ------------------------------- C1 ----------------------------------- *)

\* C1: when a setup_links call with N posts is about to release the write
\* lock, the registry holds exactly the keys it held when the call took the
\* lock plus 2N+3 new ones, none of which was a key before: the ids
\* get_free_ids returned, N of them Image entries, N RefreshImage entries,
\* and one SearchMap, one Previews and one RefreshSearch entry.
C1_SetupAddsExactly2NPlus3 ==
    \A b \in Batches :
       spc[b] = "ret" =>
          LET new == DOMAIN inner \ before[b]
              n   == Len(posts[b])
          IN  /\ before[b] \subseteq DOMAIN inner
              /\ Cardinality(DOMAIN inner) = Cardinality(before[b]) + 2 * n + 3
              /\ new = AllIds(b)
              /\ \A k \in new : inner[k].batch = b
              /\ Cardinality(new \cap KeysOfKind("Image")) = n
              /\ Cardinality(new \cap KeysOfKind("RefreshImage")) = n
              /\ Cardinality(new \cap KeysOfKind("SearchMap")) = 1
              /\ Cardinality(new \cap KeysOfKind("Previews")) = 1
              /\ Cardinality(new \cap KeysOfKind("RefreshSearch")) = 1

\* a call with posts finishes on a registry that had keys, and filled a hole
\* below one of them
C1_Witness ==
    \E b \in Batches :
       /\ spc[b] = "ret"
       /\ Len(posts[b]) >= 1
       /\ \E k \in before[b], j \in AllIds(b) : j < k

(* ------------------------------- C2 ----------------------------------- *)

\* the setup_links call of batch b is between get_free_ids and its return
MidSetup(b) == spc[b] \in {"loop", "insert", "barrier", "hinsert", "ret"}

C3_LiveIdNeverHandedOut ==
    \A k \in DOMAIN inner :
       LET l == inner[k]
       IN  /\ k \in SlotIds(l.batch, l.slot)
           /\ att[l.batch][l.slot].pc # "done"
           /\ \A c \in Batches \ {l.batch} : k \notin HeldIds(c)
           /\ \A c \in Batches : MidSetup(c) /\ k \in before[c] => k \notin AllIds(c)

\* an id that one batch was handed and tore down is a key again, of another
\* batch
C3_Witness ==
    \E k \in DOMAIN inner, a \in Batches :
       /\ a # inner[k].batch
       /\ k \in AllIds(a)
       /\ k \in AllIds(inner[k].batch)
       /\ \E j \in DOMAIN inner : j > k /\ inner[j].batch = a

(* ------------------------------- C4 ----------------------------------- *)

\* C4: once Promise::new has returned, the spawned task holds the cell's
\* initialization permit (or has filled the cell), and no reader's get is
\* ever granted the permit.
C4_TaskOwnsPermitWhenNewReturns ==
    /\ pnew = "ret" => (ppermit = PermitTask \/ Initialized(pcell))
    /\ \A r \in Readers : ppermit # PermitOf(r) /\ rpc[r] # "pinit"

(* ------------------------------- C5 ----------------------------------- *)

\* C5: every value Promise::get returned is the cell's one value, and
\* every call of Promise::get that is pending comes to an end (the
\* computation terminates).
C5_EveryGetReturnsTheValue ==
    /\ [](\A r \in Readers : pgot[r] # "none" => pgot[r] = pcell)
    /\ \A r \in Readers : (rpc[r] \in {"pwait", "pinit"}) ~> (rpc[r] = "idle")

(* ------------------------------- C6 ----------------------------------- *)

\* C6: the computation of a LazyPromise is not started before the first
\* get; its result is produced at most once; once produced it is the
\* cell's value, every get returns that value, and no get polls the
\* finished computation again.
C6_LazyRunsOnceAndMemoizes ==
    /\ ~lcalled => lfut = "unstarted" /\ lcell = Empty
    /\ lruns <= 1
    /\ lfut = "finished" <=> Initialized(lcell)
    /\ \A r \in Readers : lgot[r] # "none" => lgot[r] = lcell
    /\ \A r \in Readers : rpc[r] # "polled again"

\* the computation has run once and every reader has got its value
C6_Witness ==
    /\ lruns = 1
    /\ Initialized(lcell)
    /\ \A r \in Readers : lgot[r] = lcell

(* ------------------------------- C7 ----------------------------------- *)

C8_GroupPulseRestartsEveryTimer ==
    \A b \in Batches, s \in Slots :
       (att[b][s].pc = "loop" /\ att[b][s].owed /\ ~Runnable(att[b][s]))
          => att[b][s].left = Duration(s)

(* ------------------------------- C9 ----------------------------------- *)

\* the pulse of the Refresher::One of batch b's post s is sent, or is
\* received by that post's attachment
IndividualStep(b, s) ==
    \/ Pulse /\ held = Link("RefreshImage", b, s)
    \/ AttRecvOne(b, s)

\* C9: sending and receiving an individual pulse change nothing but the
\* pulsed attachment: every sibling attachment and the header attachment
\* keep their remaining time and their channels, and the registry is left
\* alone. The header's remaining time grows only when the header's task
\* starts its sleep or receives a group pulse.
C9_IndividualPulseIsLocal ==
    [][/\ \A b \in Batches, s \in Slots :
             IndividualStep(b, s) =>
                /\ inner' = inner
                /\ \A c \in Batches, t \in Slots :
                      <<c, t>> # <<b, s>> => att'[c][t] = att[c][t]
       /\ \A b \in Batches :
             att'[b][0].left > att[b][0].left =>
                \/ att[b][0].pc = "spawned"
                \/ att[b][0].pc = "loop" /\ att[b][0].many = 1 /\ ~att[b][0].off
      ]_vars

\* the first post was pulsed and stands at its full duration; its sibling
\* runs on, untouched, and the header has expired
C9_Witness ==
    /\ att[1][1].pc = "loop"
    /\ att[1][1].left = IMAGE_TTL
    /\ att[1][2].pc = "loop"
    /\ att[1][2].left > 0
    /\ att[1][2].left < IMAGE_TTL
    /\ att[1][2].many = 0
    /\ att[1][2].one = 0
    /\ att[1][0].pc = "done"

(* ------------------------------- C10 ---------------------------------- *)

\* the timer of batch b's slot s is armed and has time left
Armed(b, s) ==
    \/ att[b][s].pc = "spawned"
    \/ att[b][s].pc = "loop" /\ att[b][s].left > 0

\* C10: once setup_links has returned, the entries of an attachment whose
\* duration has not run out are in the registry; an attachment whose
\* duration has run out is torn down unless a pulse restarts it first, and
\* from then on its ids are no keys of the registry: get returns None.
C10_EntryGoesAfterItsDuration ==
    /\ [](\A b \in Batches, s \in Slots :
             /\ (spc[b] = "done" /\ Armed(b, s)) => Present(b, s)
             /\ att[b][s].pc = "done" =>
                   \A k \in SlotIds(b, s) : get(inner, k) = NoLink)
    /\ \A b \in Batches, s \in Slots :
          (att[b][s].pc = "loop" /\ att[b][s].left = 0)
             ~> (att[b][s].pc = "done" \/ Armed(b, s))

\* the header's duration ran out and its entries are gone, while a post's
\* entries, longer lived, are still there
C10_Witness ==
    /\ att[1][0].pc = "done"
    /\ \A k \in SlotIds(1, 0) : get(inner, k) = NoLink
    /\ att[1][1].pc = "loop"
    /\ att[1][1].left > 0
    /\ Present(1, 1)

(* ------------------------------- C11 ---------------------------------- *)

\* the attachments a Refresher pulses: its own for Refresher::One, all of
\* the batch for Refresher::Many
Targets(link) ==
    IF link.kind = "RefreshImage" THEN {link.slot}
    ELSE IF link.kind = "RefreshSearch" THEN {s \in Slots : att[link.batch][s].pc # "none"}
    ELSE {}

\* every attachment the held Refresher pulses has timed out
HeldIsStale ==
    /\ held # NoLink
    /\ \A s \in Targets(held) : att[held.batch][s].pc \in {"expired", "done"}

\* C11: a pulse of a Refresher whose attachments have all timed out
\* returns (the handler gives the Refresher up), inserts nothing into the
\* registry and changes no attachment: no timer is started again. An
\* attachment that has timed out never goes back to its loop.
C11_StalePulseIsNoOp ==
    [][/\ (HeldIsStale /\ held' # held) =>
             /\ held' = NoLink
             /\ inner' = inner
             /\ att' = att
       /\ \A b \in Batches, s \in Slots :
             att[b][s].pc \in {"expired", "done"} =>
                /\ att'[b][s].pc \in {"expired", "done"}
                /\ att'[b][s].left = 0
                /\ SlotIds(b, s) \cap DOMAIN inner' \subseteq DOMAIN inner
      ]_vars

\* a handler holds the Refresher of an image, got from the registry just
\* before the image's timer ran out; in the meantime the attachment was
\* torn down and its entries are gone, and the pulse can be sent
C11_Witness ==
    /\ held = Link("RefreshImage", 1, 1)
    /\ att[1][1].pc = "done"
    /\ SlotIds(1, 1) \cap DOMAIN inner = {}
    /\ ENABLED Pulse

(* ------------------------------- C12 ---------------------------------- *)

\* the strings of a sequence with sep between each two of them
RECURSIVE JoinStr(_, _)
JoinStr(seq, sep) ==
    IF seq = <<>> THEN ""
    ELSE IF Len(seq) = 1 THEN seq[1]
    ELSE seq[1] \o sep \o JoinStr(Tail(seq), sep)

\* the fields of the first line of a SearchMap
HeaderFields(ids) ==
    <<"600000", to_string(ids.search_map), to_string(ids.preview),
      to_string(ids.refresh)>>

\* the fields of the line of a post
PostFields(post, ids) ==
    <<to_string(ids.post), to_string(post.id),
      to_string(post.sample.width), to_string(post.sample.height),
      to_string(post.preview.width), to_string(post.preview.height),
      to_string(post.score.up), to_string(post.score.down),
      post.rating, post.file.ext, to_string(ids.refresh), "1200000">>

\* the lines of the SearchMap of posts ps with ids ids: the header's, then
\* one for each post, in the order of ps
SearchMapLines(ps, ids) ==
    <<JoinStr(HeaderFields(ids.header_ids), ",")>> \o
    [i \in 1..Len(ps) |-> JoinStr(PostFields(ps[i], ids.post_ids[i]), ",")]

\* C12: the SearchMap setup_links returns is its lines joined by a newline
\* with none at the end, the first line 600000 and the three header ids,
\* then one line of twelve fields for each post in the order of the input,
\* the fields of a line joined by one comma with none at the end. For the
\* header ids (5, 6, 7) and one post (image id 1, post 42, sample 100x200,
\* preview 50x75, score 10/-2, rating s, ext png, refresh id 2) it is
\* 600000,5,6,7 and 1,42,100,200,50,75,10,-2,s,png,2,1200000.
C12_SearchMapFormat ==
    (fin.kind = "setup" /\ fout.done) =>
       /\ Len(fout.alloc.post_ids) = Len(fin.posts)
       /\ fout.text = JoinStr(SearchMapLines(fin.posts, fout.alloc), "\n")
       /\ (/\ fin.keys = {0, 3, 4}
           /\ fin.posts = <<Post(42, <<400, 800>>, <<100, 200>>, <<50, 75>>,
                                  <<10, -2>>, "s", "png")>>)
          => fout.text = "600000,5,6,7\n1,42,100,200,50,75,10,-2,s,png,2,1200000"

\* the SearchMap of a list that holds the same post twice, on a registry
\* that has keys
C12_Witness ==
    /\ fin.kind = "setup"
    /\ fout.done
    /\ Len(fin.posts) = 2
    /\ fin.posts[1] = fin.posts[2]
    /\ fin.keys = {1, 2}
    /\ fout.text = "600000,6,7,8\n0,42,100,200,50,75,10,-2,s,png,3,1200000\n4,42,100,200,50,75,10,-2,s,png,5,1200000"

(* ------------------------------- C13 ---------------------------------- *)

\* C13: a step that removes or replaces an entry of the registry is the
\* teardown of the one attachment the entry belongs to, which had timed out
\* and is done after it; the step removes exactly the ids of that
\* attachment, all of which were entries of it. An attachment's teardown
\* starts only from its loop, and an attachment that is done stays as it
\* is: its teardown never runs again. The slots of a batch share no id.
C13_RemovedOnceByItsOwner ==
    [][/\ \A k \in DOMAIN inner :
             (k \notin DOMAIN inner' \/ inner'[k] # inner[k]) =>
                LET l == inner[k]
                IN  /\ att[l.batch][l.slot].pc = "expired"
                    /\ att'[l.batch][l.slot].pc = "done"
                    /\ DOMAIN inner \ DOMAIN inner' = SlotIds(l.batch, l.slot)
                    /\ \A j \in DOMAIN inner' : inner'[j] = inner[j]
       /\ \A b \in Batches, s \in Slots :
             /\ att[b][s].pc = "done" => att'[b][s] = att[b][s]
             /\ (att[b][s].pc # "expired" /\ att'[b][s].pc = "expired")
                   => att[b][s].pc = "loop"
             /\ (att[b][s].pc # "done" /\ att'[b][s].pc = "done") =>
                   /\ att[b][s].pc = "expired"
                   /\ Present(b, s)
                   /\ SlotIds(b, s) \cap DOMAIN inner' = {}
       /\ \A b \in Batches, s, t \in Slots :
             s # t => SlotIds(b, s) \cap SlotIds(b, t) = {}
      ]_vars

\* the header of a batch was torn down, a post of the batch has timed out
\* and its entries wait for their own teardown
C13_Witness ==
    \E b \in Batches, s \in Slots :
       /\ s > 0
       /\ att[b][0].pc = "done"
       /\ SlotIds(b, 0) \cap DOMAIN inner = {}
       /\ att[b][s].pc = "expired"
       /\ Present(b, s)

(* ------------------------------- C14 ---------------------------------- *)

\* the link handler awaits the value of a Promise or of a LazyPromise
AwaitsValue == held.kind \in {"Image", "Previews"}

\* C14: the link handler holds no read guard while it awaits a value or
\* holds a Refresher, and no guard of it is alive between two steps; so
\* whenever no setup_links holds the write guard, a setup_links that waits
\* for the lock can take it and a teardown that waits for it can run,
\* whatever value a handler is waiting for. A lookup needs the lock only:
\* it is granted whenever no write guard is alive.
C14_NoLockWhileAwaiting ==
    /\ AwaitsValue => ~guard
    /\ ~guard
    /\ WriteLockFree =>
          /\ \A b \in Batches : spc[b] = "wait" => ENABLED SetupAcquire(b)
          /\ \A b \in Batches, s \in Slots :
                att[b][s].pc = "expired" => ENABLED Teardown(b, s)
    /\ (WriteLockFree /\ held = NoLink) =>
          \A id \in DOMAIN inner :
             inner[id].kind \in {"Image", "Previews"} => ENABLED LookupValue(id)

\* a handler awaits a preview while a setup_links call and a teardown wait
\* for the write lock
C14_Witness ==
    /\ held.kind = "Previews"
    /\ WriteLockFree
    /\ \E b \in Batches : spc[b] = "wait"
    /\ \E b \in Batches, s \in Slots : att[b][s].pc = "expired"

(* ------------------------------- C15 ---------------------------------- *)

\* the task of batch b's slot s exists and its teardown has not run
Pending(b, s) == att[b][s].pc \in {"spawned", "loop", "expired"}

\* C15: no teardown of a batch runs before the batch's setup_links has
\* returned, that is before the entries it is to remove are inserted; from
\* the return to the teardown the entries are in the registry; every entry
\* of the registry has an attachment whose teardown is still to come; and
\* an id that get_free_ids hands out is no key of the registry, every
\* attachment that had it before has been torn down.
C15_RemovalBetweenInsertAndReuse ==
    [][/\ \A b \in Batches, s \in Slots :
             /\ att[b][s].pc = "done" => spc[b] = "done"
             /\ (spc[b] = "done" /\ Pending(b, s)) => Present(b, s)
       /\ \A k \in DOMAIN inner : Pending(inner[k].batch, inner[k].slot)
       /\ \A c \in Batches :
             (spc[c] = "wait" /\ spc'[c] = "loop") =>
                \A k \in AllIds(c)' :
                   /\ k \notin DOMAIN inner
                   /\ \A b \in Batches \ {c}, s \in Slots :
                         k \in SlotIds(b, s) => att[b][s].pc = "done"
      ]_vars

\* the timer of a post has run out before setup_links has inserted the
\* post's entries: the teardown waits for the lock
C15_Witness ==
    \E c \in Batches :
       /\ spc[c] = "insert"
       /\ att[c][iter[c]].pc = "expired"
       /\ SlotIds(c, iter[c]) \cap DOMAIN inner = {}
       /\ writer = {c}

(* ------------------------------- C16 ---------------------------------- *)

\* the loop of batch b's slot s consumes a pulse in this step (a pulse that
\* is pending when the timeout branch is taken is dropped with its receiver)
Consumes(b, s) ==
    /\ att[b][s].pc = "loop"
    /\ att'[b][s].pc # "expired"
    /\ \/ att'[b][s].one < att[b][s].one
       \/ att[b][s].many = 1 /\ att'[b][s].many = 0

\* C16: a step in which an attachment's loop consumes a pulse leaves the
\* attachment in its loop with the full duration on its timer (1200 s for
\* an image, 600 s for the header), whatever was left. Time is taken off a
\* timer only by the clock, one step at a time, and an attachment leaves
\* its loop only with nothing left; an individual pulse sent to an image
\* attachment with time left is consumed before the clock goes on. So an
\* image pulsed at intervals shorter than its duration is not torn down.
C16_PulseRestartsAtFullDuration ==
    [][\A b \in Batches, s \in Slots :
          /\ Consumes(b, s) =>
                /\ att'[b][s].pc = "loop"
                /\ att'[b][s].left = IF s = 0 THEN HEADER_TTL ELSE IMAGE_TTL
          /\ (att[b][s].pc = "loop" /\ att'[b][s].pc = "loop"
                /\ att'[b][s].left < att[b][s].left)
                => att'[b][s].left = att[b][s].left - TickLen
          /\ (att[b][s].pc = "loop" /\ att'[b][s].pc # "loop")
                => (att[b][s].left = 0 /\ att'[b][s].pc = "expired")
          /\ (att[b][s].pc = "loop" /\ att[b][s].one = 1 /\ att[b][s].left > 0)
                => att'[b][s].left >= att[b][s].left
      ]_vars

\* an image that was not pulsed has been torn down; its sibling, pulsed in
\* time, is in its loop with time left
C16_Witness ==
    /\ att[1][2].pc = "done"
    /\ att[1][0].pc = "done"
    /\ att[1][1].pc = "loop"
    /\ att[1][1].left = IMAGE_TTL
    /\ att[1][1].one = 0
    /\ Present(1, 1)

(* ------------------------------- C17 ---------------------------------- *)

\* C17: a memoized computation that was started fills its cell: after
\* Promise::new has spawned the task, the Promise's cell is filled in the
\* end, and after a first get has begun to drive a LazyPromise's future,
\* the LazyPromise's cell is filled in the end, whether or not readers
\* give up their reads (the computations themselves terminate).
C17_StartedRunsToCompletion ==
    /\ (lfut = "running") ~> Initialized(lcell)
    /\ (ptask # "none") ~> Initialized(pcell)

(* ------------------------------- C18 ---------------------------------- *)

\* C18: when the fetch of an image has failed, the cell of the image's
\* LazyPromise holds None; every get that returned gave None, never the
\* error, and the handler's response to it is the placeholder; the fetch
\* has run once and no reader drives or polls it again.
C18_FailedFetchIsAbsorbed ==
    (lres # NoResult /\ ~lres.is_ok) =>
        /\ lcell = None
        /\ \A r \in Readers :
              /\ lgot[r] # "none" =>
                    /\ lgot[r] = None
                    /\ unwrap_or_else(lgot[r], placeholder) = placeholder
              /\ rpc[r] \notin {"ldrive", "locked twice", "polled again"}
        /\ lruns = 1
        /\ lfut = "finished"

\* the fetch failed, the reader that drove it and a later reader both got
\* None
C18_Witness ==
    /\ ~lres.is_ok /\ lres # NoResult
    /\ lruns = 1
    /\ \A r \in Readers : lgot[r] = None /\ rpc[r] = "idle"

(* ------------------------------- C19 ---------------------------------- *)

\* the ids of an allocation in the order the claim gives: for each post its
\* image id and its image-refresh id, then search_map, preview, refresh
RECURSIVE InClaimOrder(_, _)
InClaimOrder(ids, i) ==
    IF i > Len(ids.post_ids)
    THEN <<ids.header_ids.search_map, ids.header_ids.preview,
           ids.header_ids.refresh>>
    ELSE <<ids.post_ids[i].post, ids.post_ids[i].refresh>>
            \o InClaimOrder(ids, i + 1)

\* C19: for every registry and every list of N posts get_free_ids returns
\* (the scan ends); read post by post (image id, image-refresh id) and then
\* search_map, preview, refresh, its ids are 2N + 3 numbers in ascending
\* order, none of them a key of the registry, and every number below the
\* last that is not a key is among them.
C19_FreeIdsSmallestInOrder ==
    /\ (fin.kind = "setup" /\ ~fout.done) => ENABLED ApplySetup
    /\ (fin.kind = "setup" /\ fout.done) =>
          LET f == InClaimOrder(fout.alloc, 1)
              n == Len(fin.posts)
          IN  /\ Len(fout.alloc.post_ids) = n
              /\ Len(f) = 2 * n + 3
              /\ \A i, j \in 1..Len(f) : i < j => f[i] < f[j]
              /\ \A i \in 1..Len(f) : f[i] \in Nat \ fin.keys
              /\ \A k \in 0..f[Len(f)] :
                    k \notin fin.keys => \E i \in 1..Len(f) : f[i] = k

\* a registry with gaps: 0, 2 and 3 are keys; one post gets 1 and 4, the
\* header 5, 6 and 7
C19_Witness ==
    /\ fin.kind = "setup" /\ fout.done
    /\ fin.keys = {0, 2, 3}
    /\ Len(fin.posts) = 1
    /\ InClaimOrder(fout.alloc, 1) = <<1, 4, 5, 6, 7>>

(* ------------------------------- C20 ---------------------------------- *)

\* C20: when the last whitespace-separated token of the trimmed query
\* parses as an unsigned integer, the page is that token and the tags are
\* the trimmed query without the whole token, however many characters the
\* token has; otherwise the page is "1" and the tags are the whole trimmed
\* query.
C20_PageTokenRemovedWhole ==
    (fin.kind = "search" /\ fout.done) =>
        LET query == trim(fin.query)
            toks  == split_whitespace(query)
            tpage == toks[Len(toks)]
        IN  IF toks # <<>> /\ parse_usize_is_ok(tpage)
            THEN /\ fout.page = tpage
                 /\ fout.tags = SubSeq(query, 1, Len(query) - Len(tpage))
            ELSE /\ fout.page = <<"1">>
                 /\ fout.tags = query

(* ------------------------------- C21 ---------------------------------- *)

\* C21: for the same header ids, posts and pairs of ids, the string of
\* QueryBuilder (push_header, push_post for each post, into_query) is the
\* string of SeachMapBuilder (new_with_header, push_post for each post,
\* into_query).
C21_BuildersAgree ==
    (fin.kind = "setup" /\ fout.done /\ fout.qdone) => fout.qtext = fout.text

(* ------------------------------- C22 ---------------------------------- *)

\* the keys of the registry whose entries belong to batch b's slot s
EntriesOf(b, s) == {k \in DOMAIN inner : inner[k].batch = b /\ inner[k].slot = s}

\* C22: whenever nobody holds the write lock, the entries of a group are in
\* the registry all together or not at all: an image and its Refresher
\* (slot s > 0), and a batch's SearchMap, preview and group Refresher
\* (slot 0), each under the id it was given.
C22_GroupsWholeOrAbsent ==
    writer = {} =>
       \A b \in Batches, s \in Slots :
          \/ EntriesOf(b, s) = {}
          \/ /\ EntriesOf(b, s) = SlotIds(b, s)
             /\ Present(b, s)
             /\ Cardinality(EntriesOf(b, s)) = IF s = 0 THEN 3 ELSE 2

\* the lock is free; one image of a batch is gone with its Refresher, its
\* sibling and the header are there
C22_Witness ==
    \E b \in Batches :
       /\ writer = {}
       /\ spc[b] = "done"
       /\ Len(posts[b]) = 2
       /\ att[b][1].pc = "done"
       /\ EntriesOf(b, 1) = {}
       /\ Present(b, 2)
       /\ Present(b, 0)

(* ------------------------------- C23 ---------------------------------- *)

\* the positions of the character sep in str
SepsOf(str, sep) == {i \in 1..Len(str) : SubSeq(str, i, i) = sep}

\* the n-th of the pieces of str between the occurrences of sep
Piece(str, sep, n) ==
    LET ends == SepsOf(str, sep) \cup {0, Len(str) + 1}
        lo   == CHOOSE p \in ends : Cardinality({q \in ends : q < p}) = n - 1
        hi   == CHOOSE p \in ends : Cardinality({q \in ends : q < p}) = n
    IN  SubSeq(str, lo + 1, hi - 1)

\* field f of line l of a SearchMap
FieldOf(text, l, f) == Piece(Piece(text, "\n", l), ",", f)

\* the id written as str is a key of map and maps to link
WrittenIdMapsTo(map, str, link) ==
    \E k \in DOMAIN map : to_string(k) = str /\ map[k] = link

\* C23: in the SearchMap setup_links returns, read as text, the second,
\* third and fourth field of the first line are keys of the registry that
\* map to the batch's SearchMap, Previews and RefreshSearch; there is one
\* more line for each post, in the order of the posts, whose second field
\* is the post's id, whose first field is the key of the Image of that
\* post and whose eleventh field is the key of the RefreshImage of the
\* same post (the Refresher::One of that image's attachment).
C23_SearchMapAgreesWithRegistry ==
    (fin.kind = "setup" /\ fout.done) =>
        LET lines == Cardinality(SepsOf(fout.text, "\n")) + 1
        IN  /\ lines = Len(fin.posts) + 1
            /\ WrittenIdMapsTo(fout.map, FieldOf(fout.text, 1, 2), Link("SearchMap", 1, 0))
            /\ WrittenIdMapsTo(fout.map, FieldOf(fout.text, 1, 3), Link("Previews", 1, 0))
            /\ WrittenIdMapsTo(fout.map, FieldOf(fout.text, 1, 4), Link("RefreshSearch", 1, 0))
            /\ \A i \in 1..Len(fin.posts) :
                  /\ FieldOf(fout.text, i + 1, 2) = to_string(fin.posts[i].id)
                  /\ WrittenIdMapsTo(fout.map, FieldOf(fout.text, i + 1, 1),
                                     Link("Image", 1, i))
                  /\ WrittenIdMapsTo(fout.map, FieldOf(fout.text, i + 1, 11),
                                     Link("RefreshImage", 1, i))
                  /\ Targets(Link("RefreshImage", 1, i)) = {i}

\* two different posts on a registry with gaps: the ids of the lines are
\* not in a row
C23_Witness ==
    /\ fin.kind = "setup" /\ fout.done
    /\ fin.keys = {1, 3}
    /\ Len(fin.posts) = 2
    /\ fin.posts[1].id # fin.posts[2].id
    /\ FieldOf(fout.text, 2, 1) = "0"
    /\ FieldOf(fout.text, 2, 11) = "2"
    /\ fout.map[2] = Link("RefreshImage", 1, 1)

(* ------------------------------- C24 ---------------------------------- *)

\* the teardown of batch b's slot s runs in this step
TearsDown(b, s) == att[b][s].pc = "expired" /\ att'[b][s].pc = "done"

\* C24: when the teardown of a batch's attachment runs, every one of the
\* attachment's ids that is a key of the registry holds an entry of this
\* attachment, none an entry that another batch inserted under the same id;
\* the step removes entries of this attachment only and leaves every entry
\* of every other batch as it is.
C24_TeardownRemovesOwnEntriesOnly ==
    [][\A b \in Batches, s \in Slots :
          TearsDown(b, s) =>
             /\ \A k \in SlotIds(b, s) \cap DOMAIN inner :
                   inner[k].batch = b /\ inner[k].slot = s
             /\ \A k \in DOMAIN inner \ DOMAIN inner' :
                   inner[k].batch = b /\ inner[k].slot = s
             /\ \A k \in DOMAIN inner :
                   inner[k].batch # b => (k \in DOMAIN inner' /\ inner'[k] = inner[k])
      ]_vars

\* batch a has torn down one of its attachments, whose id k is now the key
\* of an entry of batch b, and another attachment of batch a has timed out
\* and waits for its teardown
C24_Witness ==
    \E a, b \in Batches, s, t \in Slots, k \in DOMAIN inner :
       /\ a # b
       /\ att[a][s].pc = "done"
       /\ k \in SlotIds(a, s)
       /\ inner[k].batch = b
       /\ att[a][t].pc = "expired"

(* ------------------------------- C25 ---------------------------------- *)

\* the handler holds a Refresher it is about to pulse
HoldsRefresher == held.kind \in {"RefreshImage", "RefreshSearch"}

\* C25: a step of the link handler that looks up or serves a preview or an
\* image changes no attachment and no entry of the registry, and no step
\* of the handler changes the registry; a message is put into a receiver
\* of an attachment only by the handler that holds a Refresher, and the
\* time left on a timer only goes up when its loop consumes a message. A
\* read that is under way when a timer has run out does not keep the
\* timeout from being taken.
C25_ReadsRestartNoTimer ==
    [][/\ (~HoldsRefresher /\ held' # held) => (att' = att /\ inner' = inner)
       /\ (held.kind \in {"Image", "Previews"} /\ held' # held)
             => (att' = att /\ inner' = inner)
       /\ held' # held => inner' = inner
       /\ \A b \in Batches, s \in Slots :
             /\ (att'[b][s].one > att[b][s].one \/ att'[b][s].many > att[b][s].many)
                   => (HoldsRefresher /\ held' = NoLink)
             /\ (att[b][s].pc = "loop" /\ att'[b][s].pc = "loop"
                   /\ att'[b][s].left > att[b][s].left)
                   => (att'[b][s].one < att[b][s].one
                         \/ att'[b][s].many < att[b][s].many)
             /\ (att[b][s].pc = "loop" /\ att[b][s].left = 0)
                   => ENABLED AttTimeout(b, s)
      ]_vars

\* the image of a post is being read at the moment its timer, never
\* restarted, has run out; the image is still in the registry
C25_Witness ==
    /\ held = Link("Image", 1, 1)
    /\ att[1][1].pc = "loop"
    /\ att[1][1].left = 0
    /\ att[1][0].pc = "done"
    /\ Present(1, 1)

(* ------------------------------- C26 ---------------------------------- *)

\* the attachments a Refresher of the registry is to reach: its own image's
\* for Refresher::One, the header's and every post's for Refresher::Many
Subscribers(link) ==
    IF link.kind = "RefreshImage" THEN {link.slot}
    ELSE IF link.kind = "RefreshSearch" THEN 0..Len(posts[link.batch])
    ELSE {}

\* C26: for every Refresher that is an entry of the registry, or that a
\* handler got from it, the task of each attachment it is to reach has
\* been created, with its receivers; a pulse puts a message into the
\* receiver of each of them that has not timed out, also of one whose
\* task has not been polled yet, and the first poll of a task keeps what
\* its receivers hold.
C26_SubscribedBeforeReachable ==
    [][/\ \A k \in DOMAIN inner : \A s \in Subscribers(inner[k]) :
             att[inner[k].batch][s].pc # "none"
       /\ \A s \in Subscribers(held) : att[held.batch][s].pc # "none"
       /\ (HoldsRefresher /\ held' = NoLink) =>
             \A s \in Subscribers(held) :
                att[held.batch][s].pc \in {"spawned", "loop"} =>
                   IF held.kind = "RefreshImage"
                   THEN att'[held.batch][s].one = 1
                   ELSE att'[held.batch][s].many >= 1
       /\ \A b \in Batches, s \in Slots :
             (att[b][s].pc = "spawned" /\ att'[b][s].pc = "loop") =>
                /\ att'[b][s].one = att[b][s].one
                /\ att'[b][s].many = att[b][s].many
      ]_vars

\* setup_links has returned and an image's Refresher was pulsed before the
\* task of the image's attachment was polled for the first time: the pulse
\* waits in the private channel
C26_Witness ==
    /\ spc[1] = "done"
    /\ att[1][1].pc = "spawned"
    /\ att[1][1].one = 1
    /\ Present(1, 1)

(* ------------------------------- C27 ---------------------------------- *)

\* C27: a setup_links call that waits for the write lock is granted it, and
\* a call that holds it comes to its return and gives it back (the task it
\* waits for at the barrier needs no lock); the teardown of an attachment
\* that has timed out gets the lock and removes its entries; a link handler
\* that waits for the read lock is granted it.
C27_NoDeadlockAroundLock ==
    /\ \A b \in Batches : (spc[b] = "wait") ~> (writer = {b})
    /\ \A b \in Batches : (writer = {b}) ~> (spc[b] = "done" /\ b \notin writer)
    /\ \A b \in Batches, s \in Slots :
          (att[b][s].pc = "expired") ~> (att[b][s].pc = "done")
    /\ (held.kind = "Waiting") ~> (held.kind # "Waiting")

\* one call holds the lock and waits at the barrier, while another call, a
\* teardown and a link handler all wait for the lock
C27_Witness ==
    \E b, c \in Batches, s \in Slots :
       /\ writer = {b}
       /\ spc[b] = "barrier"
       /\ bar[b] = "spawned"
       /\ spc[c] = "wait"
       /\ att[b][s].pc = "expired"
       /\ held.kind = "Waiting"

====
